---- MODULE Spec2Model ----
(***************************************************************************)
(* Model of the auto-tuning orchestration of tune_relay_cuda.ipynb:        *)
(* tune_tasks (the per-task strategy dispatch, the trial loop it starts,   *)
(* the temporary log and the best-record reduction).                       *)
(*                                                                         *)
(* tune_tasks itself is translated from the notebook.  The operations it   *)
(* calls in the autotvm library (Tuner.tune, Tuner.load_history,           *)
(* callback.log_to_file, record.load_from_file, record.pick_best) are not   *)
(* part of the repository; they are modelled by the contract the design    *)
(* document gives for them (sections 4.2, 4.3 and 6).                       *)
(***************************************************************************)
EXTENDS Integers, Sequences, FiniteSets, TLC

VARIABLES
    tasks,                  \* argument: the task list supplied by the caller
    tuner,                  \* argument: the strategy kind (a string)
    n_trial,                \* argument: the configured trial budget
    early_stopping,         \* argument: the early-stopping threshold
    use_transfer_learning,  \* argument: seed each strategy from the log
    log_filename,           \* argument: the path of the final log
    tmp_log,                \* the file log_filename + ".tmp"
    final_log,              \* the file log_filename
    tmp_at_start,           \* the temporary log as the session found it
    pc,                     \* position of the session inside tune_tasks
    i,                      \* number of loop iterations completed
    tuner_obj,              \* the strategy object of the current iteration
    raised,                 \* the exception that ended the session, or ""
    dispatched,             \* tasks for which a strategy was created, in order
    submitted,              \* (task, config) of every trial submitted, in order
    tmp_at_reduce,          \* the temporary log as pick_best found it
    phase,                  \* position of the session inside tune_and_evaluate
    steps,                  \* the steps of the evaluation completed, in order
    applied_log             \* the path handed to apply_history_best, or ""

vars == <<tasks, tuner, n_trial, early_stopping, use_transfer_learning,
          log_filename, tmp_log, final_log, tmp_at_start, pc, i, tuner_obj,
          raised, dispatched, submitted, tmp_at_reduce, phase, steps,
          applied_log>>

args == <<tasks, tuner, n_trial, early_stopping, use_transfer_learning,
          log_filename, tmp_at_start>>

(* the state of tune_and_evaluate outside its call of tune_tasks *)
eval_vars == <<phase, steps, applied_log>>

-----------------------------------------------------------------------------
(* Bounds of the model *)

MaxTrial == 3

MaxCost == 2

MaxEarly == 2

MaxLog == 3

(* early_stopping=None: the default of tune_tasks, "no early stopping" *)
NoEarlyStopping == 0

-----------------------------------------------------------------------------
(* Data *)

TaskIds == {"A", "B", "C", "D"}

(* len(tsk.config_space): the number of candidate configurations of a task *)
config_space_len(tsk) ==
    CASE tsk = "A" -> 1
      [] tsk = "B" -> 2
      [] tsk = "C" -> 3
      [] OTHER     -> 1

config_space(tsk) == 1 .. config_space_len(tsk)

(* The task lists a caller supplies (extract_from_program returns distinct tasks) *)
TaskLists ==
    { <<>>, <<"A">>, <<"C">>, <<"A", "B">>, <<"A", "C">>, <<"B", "A", "D">> }

(* The strategy names tune_tasks accepts *)
KnownTuners ==
    { "xgb", "xgb_knob", "xgb_itervar", "xgb_curve",
      "xgb_rank", "xgb_rank_knob", "xgb_rank_itervar", "xgb_rank_curve",
      "xgb_rank_binary", "xgb_rank_binary_knob", "xgb_rank_binary_itervar",
      "xgb_rank_binary_curve", "ga", "random", "gridsearch" }

(* log_file = "%s.log" % network, the module-level name of the log *)
log_file == "resnet-18.log"

(* The log paths an option bundle may name: the module-level one and another *)
LogFiles == { log_file, "other.log" }

(* The strategy names the model passes in: two known ones and an unknown one *)
TunerInputs == { "xgb", "gridsearch", "sa" }

(* A Measurement Record: task, configuration, and the outcome: a failure      *)
(* (error) or a cost, lower is better.                                        *)
Record(tsk, cfg, error, cost) ==
    [task |-> tsk, cfg |-> cfg, error |-> error, cost |-> cost]

Outcomes == { [error |-> TRUE, cost |-> 0] }
            \cup { [error |-> FALSE, cost |-> c] : c \in 1 .. MaxCost }

(* A file: absent, or present with a sequence of records *)
NoFile == [exists |-> FALSE, recs |-> << >>]

File(recs) == [exists |-> TRUE, recs |-> recs]

(* Temporary logs an earlier, interrupted session may have left behind *)
StaleLogs ==
    { NoFile,
      File(<< Record("A", 1, FALSE, 1), Record("B", 2, FALSE, 2) >>) }

NoTuner ==
    [task |-> "", history |-> << >>, loaded |-> FALSE, visited |-> {},
     trials |-> 0, best |-> 0, stale |-> 0, n_trial |-> 0, early_stopping |-> 0,
     stopped_early |-> FALSE]

Reverse(s) == [k \in 1 .. Len(s) |-> s[Len(s) + 1 - k]]

Min(a, b) == IF a <= b THEN a ELSE b

-----------------------------------------------------------------------------
(* tune_tasks: the parts written in the notebook *)

(* mutant: the tasks are taken in the order supplied *)
TaskOrderForward(T) == T

(* for i, tsk in enumerate(reversed(tasks)) *)
TaskOrder(T) == Reverse(T)

(* the if/elif chain over the strategy name; the else branch raises ValueError *)
ValidTuner(name) == name \in KnownTuners

(* mutant: the budget is not capped by n_trial *)
tsk_trial_uncapped(tsk) == config_space_len(tsk)

(* tsk_trial = min(n_trial, len(tsk.config_space)) *)
tsk_trial(tsk) == Min(n_trial, config_space_len(tsk))

(* mutant: the threshold is not handed to the trial loop *)
EarlyStoppingDropped == NoEarlyStopping

(* early_stopping=early_stopping in the call of tuner_obj.tune *)
EarlyStoppingArg == early_stopping

(* mutant: the history is never loaded *)
LoadsHistoryNever == FALSE

(* if use_transfer_learning: if os.path.isfile(tmp_log_file): load_history(...) *)
LoadsHistory == use_transfer_learning /\ tmp_log.exists

(* mutant: only the records of the task being dispatched are handed over *)
HistoryRecordsOfTask ==
    SelectSeq(tmp_log.recs, LAMBDA r : r.task = TaskOrder(tasks)[i + 1])

(* autotvm.record.load_from_file(tmp_log_file): every record of the file *)
HistoryRecords == tmp_log.recs

(* mutant: log_to_file is missing from the callbacks *)
LogsNowhere == FALSE

(* callbacks=[progress_bar(...), log_to_file(tmp_log_file)]: the trial loop   *)
(* appends every measured record to the temporary log                         *)
LogsToTmpFile == TRUE

(* mutant: a temporary log found at the start is kept *)
KeepStaleTmp(f) == f

(* if os.path.exists(tmp_log_file): os.remove(tmp_log_file) *)
RemoveStaleTmp(f) == NoFile

-----------------------------------------------------------------------------
(* The library operations, by their contract *)

(* Tuner.update / the best-so-far bookkeeping of the trial loop: an outcome is *)
(* an improvement when it succeeds and is a new best for the task             *)
Improves(t, out) == ~out.error /\ (t.best = 0 \/ out.cost < t.best)

(* the state of the strategy after one trial *)
AfterTrial(t, cfg, out) ==
    LET stale == IF Improves(t, out) THEN 0 ELSE t.stale + 1
    IN  [t EXCEPT !.visited = @ \cup {cfg},
                  !.trials = @ + 1,
                  !.best = IF Improves(t, out) THEN out.cost ELSE @,
                  !.stale = stale,
                  !.stopped_early = t.early_stopping # NoEarlyStopping
                                    /\ stale >= t.early_stopping]

(* Tuner.has_next: the strategy still has a candidate it has not proposed *)
has_next(t) == config_space(t.task) \ t.visited # {}

(* the condition of the trial loop of Tuner.tune *)
TuneContinues(t) == t.trials < t.n_trial /\ has_next(t) /\ ~t.stopped_early

(* record.load_from_file, called for the history: the log is parsed (TRUE) or *)
(* cannot be parsed (FALSE); without a load there is nothing to fail          *)
ParseOutcomes(loads) == IF loads THEN BOOLEAN ELSE {TRUE}

(* record.pick_best as a whole succeeds (TRUE) or fails during the reduction  *)
ReduceOutcomes == BOOLEAN

(* mutant: the record is written at the head of the file *)
Prepend1(f, rec) == File(<<rec>> \o f.recs)

(* callback.log_to_file: append one record, creating the file on first use *)
Append1(f, rec) == File(Append(f.recs, rec))

(* mutant: a record is compared with the record after it only *)
IsBestOfNeighbours(recs, k) ==
    /\ ~recs[k].error
    /\ \A j \in {k + 1} \cap (1 .. Len(recs)) :
          (recs[j].task = recs[k].task /\ ~recs[j].error)
             => recs[j].cost >= recs[k].cost

(* mutant: the record kept for a task is its worst successful one *)
IsWorst(recs, k) ==
    /\ ~recs[k].error
    /\ \A j \in 1 .. Len(recs) :
          (recs[j].task = recs[k].task /\ ~recs[j].error)
             => (recs[j].cost < recs[k].cost
                 \/ (recs[j].cost = recs[k].cost /\ j >= k))

(* record.pick_best: the best successful record of every task, in log order;  *)
(* of two equally good records the earlier one is kept                        *)
IsBest(recs, k) ==
    /\ ~recs[k].error
    /\ \A j \in 1 .. Len(recs) :
          (recs[j].task = recs[k].task /\ ~recs[j].error)
             => (recs[j].cost > recs[k].cost
                 \/ (recs[j].cost = recs[k].cost /\ j >= k))

RECURSIVE PickFrom(_, _)
PickFrom(recs, k) ==
    IF k > Len(recs) THEN << >>
    ELSE IF IsBest(recs, k) THEN << recs[k] >> \o PickFrom(recs, k + 1)
    ELSE PickFrom(recs, k + 1)

pick_best(recs) == PickFrom(recs, 1)

-----------------------------------------------------------------------------
(* The session *)

Init ==
    /\ tasks \in TaskLists
    /\ tuner \in TunerInputs
    /\ n_trial \in 0 .. MaxTrial
    /\ early_stopping \in {NoEarlyStopping} \cup (1 .. MaxEarly)
    /\ use_transfer_learning \in BOOLEAN
    /\ log_filename = log_file
    /\ tmp_at_start \in StaleLogs
    /\ tmp_log = tmp_at_start
    /\ final_log = NoFile
    /\ pc = "start"
    /\ i = 0
    /\ tuner_obj = NoTuner
    /\ raised = ""
    /\ dispatched = << >>
    /\ submitted = << >>
    /\ tmp_at_reduce = << >>
    /\ phase = "tuning"
    /\ steps = << >>
    /\ applied_log = ""

(* tmp_log_file = log_filename + ".tmp"; remove it if it exists *)
Start ==
    /\ pc = "start"
    /\ tmp_log' = IF tmp_log.exists THEN RemoveStaleTmp(tmp_log) ELSE tmp_log
    /\ pc' = "loop"
    /\ UNCHANGED <<args, eval_vars, final_log, i, tuner_obj, raised, dispatched,
                   submitted, tmp_at_reduce>>

(* One iteration of the for loop up to the call of tuner_obj.tune: create the *)
(* strategy (or raise ValueError), load the history, compute tsk_trial.       *)
(* load_from_file may fail on a log it cannot parse; tune_tasks has no        *)
(* handler, so the error leaves the function.                                 *)
Dispatch ==
    /\ pc = "loop"
    /\ i < Len(tasks)
    /\ LET tsk == TaskOrder(tasks)[i + 1]
       IN  IF ~ValidTuner(tuner)
           THEN /\ pc' = "raised"
                /\ raised' = "ValueError"
                /\ UNCHANGED <<tuner_obj, dispatched>>
           ELSE \E parsed \in ParseOutcomes(LoadsHistory) :
                   IF ~parsed
                   THEN /\ tuner_obj' = [NoTuner EXCEPT !.task = tsk]
                        /\ dispatched' = Append(dispatched, tsk)
                        /\ pc' = "raised"
                        /\ raised' = "LogCorruptionError"
                   ELSE /\ tuner_obj' =
                              [NoTuner EXCEPT
                                  !.task = tsk,
                                  !.loaded = LoadsHistory,
                                  !.history = IF LoadsHistory
                                              THEN HistoryRecords
                                              ELSE << >>,
                                  !.n_trial = tsk_trial(tsk),
                                  !.early_stopping = EarlyStoppingArg]
                        /\ dispatched' = Append(dispatched, tsk)
                        /\ pc' = "tune"
                        /\ UNCHANGED raised
    /\ UNCHANGED <<args, eval_vars, tmp_log, final_log, i, submitted, tmp_at_reduce>>

(* One trial of tuner_obj.tune: propose a candidate, measure it (the outcome  *)
(* may be a failure), append the record to the log, report it to the strategy *)
Trial ==
    /\ pc = "tune"
    /\ TuneContinues(tuner_obj)
    /\ \E cfg \in config_space(tuner_obj.task) \ tuner_obj.visited :
       \E out \in Outcomes :
          /\ submitted' = Append(submitted, <<tuner_obj.task, cfg>>)
          /\ tmp_log' =
                IF LogsToTmpFile
                THEN Append1(tmp_log,
                             Record(tuner_obj.task, cfg, out.error, out.cost))
                ELSE tmp_log
          /\ tuner_obj' = AfterTrial(tuner_obj, cfg, out)
    /\ UNCHANGED <<args, eval_vars, final_log, pc, i, raised, dispatched, tmp_at_reduce>>

(* mutant: the for loop goes on while the trial loop of the task still runs *)
TuneReturnsAtOnce ==
    /\ pc = "tune"
    /\ i' = i + 1
    /\ pc' = "loop"
    /\ UNCHANGED <<args, eval_vars, tmp_log, final_log, tuner_obj, raised, dispatched,
                   submitted, tmp_at_reduce>>

(* tuner_obj.tune returns: the for loop goes on to the next task *)
TuneReturn ==
    /\ pc = "tune"
    /\ ~TuneContinues(tuner_obj)
    /\ i' = i + 1
    /\ pc' = "loop"
    /\ UNCHANGED <<args, eval_vars, tmp_log, final_log, tuner_obj, raised, dispatched,
                   submitted, tmp_at_reduce>>

(* mutant: the reduction may run at any task boundary after the first task *)
SomeTaskDone == i >= 1

(* the for loop over reversed(tasks) is exhausted *)
LoopExhausted == i = Len(tasks)

(* autotvm.record.pick_best(tmp_log_file, log_filename): the temporary log is *)
(* opened for reading, and removed right after; on a file that does not exist *)
(* the open (and os.remove) raises FileNotFoundError                          *)
PickBest ==
    /\ pc = "loop"
    /\ LoopExhausted
    /\ IF ~tmp_log.exists
       THEN /\ pc' = "raised"
            /\ raised' = "FileNotFoundError"
            /\ UNCHANGED <<final_log, tmp_at_reduce>>
       ELSE \E reduced \in ReduceOutcomes :
               IF ~reduced
               THEN /\ pc' = "raised"
                    /\ raised' = "ReductionError"
                    /\ UNCHANGED <<final_log, tmp_at_reduce>>
               ELSE /\ final_log' = File(pick_best(tmp_log.recs))
                    /\ tmp_at_reduce' = tmp_log.recs
                    /\ pc' = "cleanup"
                    /\ UNCHANGED raised
    /\ UNCHANGED <<args, eval_vars, tmp_log, i, tuner_obj, dispatched, submitted>>

(* mutant: tune_tasks returns without os.remove(tmp_log_file) *)
RemoveTmpForgotten ==
    /\ pc = "cleanup"
    /\ pc' = "done"
    /\ UNCHANGED <<args, eval_vars, tmp_log, final_log, i, tuner_obj, raised,
                   dispatched, submitted, tmp_at_reduce>>

(* os.remove(tmp_log_file) *)
RemoveTmp ==
    /\ pc = "cleanup"
    /\ tmp_log' = NoFile
    /\ pc' = "done"
    /\ UNCHANGED <<args, eval_vars, final_log, i, tuner_obj, raised, dispatched,
                   submitted, tmp_at_reduce>>

(* The reduction step on any temporary log: the state of a session whose for  *)
(* loop is over, with a log of up to MaxLog records of any content            *)
LogRecords ==
    { Record(tsk, cfg, out.error, out.cost) :
         tsk \in {"A", "B"}, cfg \in config_space("B"), out \in Outcomes }

AnyLogs == UNION { [1 .. n -> LogRecords] : n \in 0 .. MaxLog }

InitReduce ==
    /\ tasks = << >>
    /\ tuner = "xgb"
    /\ n_trial = 0
    /\ early_stopping = NoEarlyStopping
    /\ use_transfer_learning = TRUE
    /\ log_filename = log_file
    /\ tmp_at_start = NoFile
    /\ tmp_log \in {NoFile} \cup { File(recs) : recs \in AnyLogs }
    /\ final_log = NoFile
    /\ pc = "loop"
    /\ i = 0
    /\ tuner_obj = NoTuner
    /\ raised = ""
    /\ dispatched = << >>
    /\ submitted = << >>
    /\ tmp_at_reduce = << >>
    /\ phase = "tuning"
    /\ steps = << >>
    /\ applied_log = ""

NextReduce ==
    \/ PickBest
    \/ RemoveTmp

SpecReduce == InitReduce /\ [][NextReduce]_vars

-----------------------------------------------------------------------------
(* tune_and_evaluate: the call of tune_tasks, then compile and evaluate *)

(* mutant: the input is set before the parameters are loaded *)
EvalOrderSwapped == << "compile", "set_input", "load_params", "benchmark" >>

(* relay.build_module.build; runtime.GraphModule(lib["default"](dev));        *)
(* module.set_input("data", data_tvm); module.benchmark(dev, ...)             *)
EvalOrder == << "compile", "load_params", "set_input", "benchmark" >>

(* the error a failing step raises; nothing in tune_and_evaluate catches it *)
EvalFailure(step) ==
    CASE step = "compile"     -> "CompilationFailure"
      [] step = "load_params" -> "DeviceLoadFailure"
      [] OTHER                -> "RuntimeError"

(* the final log of the session: the file named by tuning_opt["log_filename"] *)
AppliedLogOfBundle == log_filename

(* with autotvm.apply_history_best(log_file): the module-level log_file *)
AppliedLog == log_file

(* An option bundle as tune_and_evaluate receives it: use_transfer_learning   *)
(* is not a key of tuning_option, so tune_tasks takes its default, True       *)
InitEvaluate ==
    /\ tasks \in TaskLists
    /\ tuner \in TunerInputs
    /\ n_trial \in 0 .. MaxTrial
    /\ early_stopping \in {NoEarlyStopping} \cup (1 .. MaxEarly)
    /\ use_transfer_learning = TRUE
    /\ log_filename \in LogFiles
    /\ tmp_at_start \in StaleLogs
    /\ tmp_log = tmp_at_start
    /\ final_log = NoFile
    /\ pc = "start"
    /\ i = 0
    /\ tuner_obj = NoTuner
    /\ raised = ""
    /\ dispatched = << >>
    /\ submitted = << >>
    /\ tmp_at_reduce = << >>
    /\ phase = "tuning"
    /\ steps = << >>
    /\ applied_log = ""

(* whether the applied log can be read: the log this session has just written *)
(* can; any other file is whatever earlier runs left, or is missing           *)
AppliedLogPresent == IF AppliedLog = log_filename THEN {TRUE} ELSE BOOLEAN

(* tune_tasks(tasks, **tuning_opt) has returned: enter the with block of      *)
(* apply_history_best, which reads the applied log.  An error raised by       *)
(* tune_tasks leaves tune_and_evaluate as well: there is no step from         *)
(* pc = "raised".                                                             *)
BeginEvaluate ==
    /\ phase = "tuning"
    /\ pc = "done"
    /\ applied_log' = AppliedLog
    /\ \E present \in AppliedLogPresent :
          IF present
          THEN /\ phase' = "evaluating"
               /\ UNCHANGED raised
          ELSE /\ phase' = "failed"
               /\ raised' = "FileNotFoundError"
    /\ UNCHANGED <<args, tmp_log, final_log, pc, i, tuner_obj,
                   dispatched, submitted, tmp_at_reduce, steps>>

(* The next step of the evaluation: it completes, or it fails and its error   *)
(* ends the session; after the benchmark the result is printed.               *)
EvalStep ==
    /\ phase = "evaluating"
    /\ Len(steps) < Len(EvalOrder)
    /\ LET step == EvalOrder[Len(steps) + 1]
       IN  \E ok \in BOOLEAN :
              IF ok
              THEN /\ steps' = Append(steps, step)
                   /\ phase' = IF Len(steps) + 1 = Len(EvalOrder)
                               THEN "reported" ELSE "evaluating"
                   /\ UNCHANGED raised
              ELSE /\ phase' = "failed"
                   /\ raised' = EvalFailure(step)
                   /\ UNCHANGED steps
    /\ UNCHANGED <<args, tmp_log, final_log, pc, i, tuner_obj, dispatched,
                   submitted, tmp_at_reduce, applied_log>>

NextEvaluate ==
    \/ Start
    \/ Dispatch
    \/ Trial
    \/ TuneReturn
    \/ PickBest
    \/ RemoveTmp
    \/ BeginEvaluate
    \/ EvalStep

SpecEvaluate == InitEvaluate /\ [][NextEvaluate]_vars

Next ==
    \/ Start
    \/ Dispatch
    \/ Trial
    \/ TuneReturn
    \/ PickBest
    \/ RemoveTmp

Spec == Init /\ [][Next]_vars

-----------------------------------------------------------------------------
(* Helpers of the properties *)

Range(f) == { f[k] : k \in DOMAIN f }

(* the positions of the records of task tsk in a log *)
Of(recs, tsk) == { k \in DOMAIN recs : recs[k].task = tsk }

(* the costs of the successful records of task tsk in a log *)
SuccessCosts(recs, tsk) ==
    { recs[k].cost : k \in { j \in Of(recs, tsk) : ~recs[j].error } }

(* the number of trials submitted for task tsk *)
TrialsOf(tsk) == Cardinality({ k \in DOMAIN submitted : submitted[k][1] = tsk })

(* min(B, S), written out *)
EffectiveBudget(tsk) ==
    IF n_trial <= config_space_len(tsk) THEN n_trial ELSE config_space_len(tsk)

(* the (task, config) pairs of a log, in log order *)
Keys(recs) == [k \in DOMAIN recs |-> <<recs[k].task, recs[k].cfg>>]

(* the temporary log the session has written: the file while it exists, the   *)
(* content pick_best found once the file has been removed                     *)
SessionLog == IF pc = "done" THEN tmp_at_reduce ELSE tmp_log.recs

-----------------------------------------------------------------------------
(* C1, as stated: after tune_tasks completes, the final log holds exactly one *)
(* record per task of the list, each the best record of its task in the       *)
(* temporary log.                                                             *)
C1_OnePerTask ==
    pc = "done" =>
       \A tsk \in Range(tasks) :
          /\ Cardinality(Of(final_log.recs, tsk)) = 1
          /\ \A k \in Of(final_log.recs, tsk) :
                /\ final_log.recs[k] \in Range(tmp_at_reduce)
                /\ \A c \in SuccessCosts(tmp_at_reduce, tsk) :
                      final_log.recs[k].cost <= c

(* C1, amended: after tune_tasks completes, the final log holds exactly one   *)
(* record for every task that has a successful record in the temporary log,   *)
(* that record is a successful record of the temporary log with the lowest    *)
(* cost of its task, and the final log holds no record of any other task.     *)
C1_BestPerMeasuredTask ==
    pc = "done" =>
       \A tsk \in TaskIds :
          IF SuccessCosts(tmp_at_reduce, tsk) = {}
          THEN Of(final_log.recs, tsk) = {}
          ELSE /\ Cardinality(Of(final_log.recs, tsk)) = 1
               /\ \A k \in Of(final_log.recs, tsk) :
                     /\ final_log.recs[k] \in Range(tmp_at_reduce)
                     /\ ~final_log.recs[k].error
                     /\ \A c \in SuccessCosts(tmp_at_reduce, tsk) :
                           final_log.recs[k].cost <= c

(* a session that completed with two tasks measured, one of them with two     *)
(* successful records of different cost, the worse one first                  *)
C1_Witness ==
    /\ pc = "done"
    /\ Len(final_log.recs) = 2
    /\ \E a, b \in DOMAIN tmp_at_reduce :
          /\ a < b
          /\ tmp_at_reduce[a].task = tmp_at_reduce[b].task
          /\ ~tmp_at_reduce[a].error /\ ~tmp_at_reduce[b].error
          /\ tmp_at_reduce[a].cost > tmp_at_reduce[b].cost

(* C2: the tasks are dispatched (strategy created, trial loop run) in the     *)
(* order reverse(T): the k-th task dispatched is the k-th from the end of the *)
(* list, the trials follow the same order, and a session that completes has   *)
(* dispatched the whole list.                                                 *)
C2_ReverseDispatch ==
    /\ Len(dispatched) <= Len(tasks)
    /\ \A k \in DOMAIN dispatched : dispatched[k] = tasks[Len(tasks) + 1 - k]
    /\ \A a, b \in DOMAIN submitted :
          a < b =>
             \E x, y \in DOMAIN dispatched :
                /\ x <= y
                /\ dispatched[x] = submitted[a][1]
                /\ dispatched[y] = submitted[b][1]
    /\ pc \in {"cleanup", "done"} => Len(dispatched) = Len(tasks)

(* a completed session over a 3-task list, every task with a trial *)
C2_Witness ==
    /\ pc = "done"
    /\ tasks = <<"B", "A", "D">>
    /\ dispatched = <<"D", "A", "B">>
    /\ \A tsk \in Range(tasks) : TrialsOf(tsk) >= 1

(* C3: the number of trials of a task never exceeds min(B, S), and a task     *)
(* whose trial loop has returned without early stopping has run min(B, S).    *)
C3_TrialBudget ==
    /\ \A tsk \in TaskIds : TrialsOf(tsk) <= EffectiveBudget(tsk)
    /\ (pc = "loop" /\ i > 0 /\ ~tuner_obj.stopped_early) =>
          TrialsOf(tuner_obj.task) = EffectiveBudget(tuner_obj.task)
    /\ (pc = "done" /\ early_stopping = NoEarlyStopping) =>
          \A tsk \in Range(tasks) : TrialsOf(tsk) = EffectiveBudget(tsk)

(* a completed session with a task whose space is smaller than the budget and *)
(* a task whose space is larger                                               *)
C3_Witness ==
    /\ pc = "done"
    /\ early_stopping = NoEarlyStopping
    /\ n_trial = 2
    /\ tasks = <<"A", "C">>
    /\ TrialsOf("A") = 1
    /\ TrialsOf("C") = 2

(* C4: a measurement failure is appended to the temporary log as a failed     *)
(* record (the log holds one record per submitted trial, in order) and ends   *)
(* nothing: the session raises no error on it, without early stopping every   *)
(* task still runs its whole budget, and a failed record is in the final log  *)
(* only if it is the only record of its task.                                 *)
C4_FailureTolerated ==
    /\ pc \notin {"start"} => Keys(SessionLog) = submitted
    /\ raised \in {"", "ValueError", "FileNotFoundError", "LogCorruptionError",
                   "ReductionError"}
    /\ (pc = "done" /\ early_stopping = NoEarlyStopping) =>
          \A tsk \in Range(tasks) : TrialsOf(tsk) = EffectiveBudget(tsk)
    /\ pc = "done" =>
          \A k \in DOMAIN final_log.recs :
             final_log.recs[k].error =>
                Cardinality(Of(tmp_at_reduce, final_log.recs[k].task)) = 1

(* the first trial of the first task failed; its second trial and the next    *)
(* task ran, and the final log holds the successful records only              *)
C4_Witness ==
    /\ pc = "done"
    /\ tasks = <<"A", "B">>
    /\ Len(tmp_at_reduce) = 3
    /\ tmp_at_reduce[1].task = "B" /\ tmp_at_reduce[1].error
    /\ tmp_at_reduce[2].task = "B" /\ ~tmp_at_reduce[2].error
    /\ tmp_at_reduce[3].task = "A" /\ ~tmp_at_reduce[3].error
    /\ final_log.recs = << tmp_at_reduce[2], tmp_at_reduce[3] >>

C6_Idempotent ==
    /\ pick_best(pick_best(tmp_log.recs)) = pick_best(tmp_log.recs)
    /\ final_log.exists =>
          /\ final_log.recs = pick_best(tmp_at_reduce)
          /\ pick_best(final_log.recs) = final_log.recs

(* a log of three records that the reduction has cut down to one *)
C6_Witness ==
    /\ pc = "cleanup"
    /\ Len(tmp_at_reduce) = 3
    /\ Len(final_log.recs) = 1
    /\ \E k \in DOMAIN tmp_at_reduce : tmp_at_reduce[k].error

(* C7: when the session has ended, a task without a successful record in the  *)
(* temporary log (every trial failed, or no trial ran) has no record in the   *)
(* final log, and the session has ended without raising.                      *)
C7_NoSuccessNoRecordNoCrash ==
    \A tsk \in Range(tasks) :
       (/\ tuner \in KnownTuners
        /\ pc \in {"done", "raised"}
        /\ raised \notin {"LogCorruptionError", "ReductionError"}
        /\ SuccessCosts(SessionLog, tsk) = {})
          => (raised = "" /\ Of(final_log.recs, tsk) = {})

(* C8: with a strategy name that is not a known one, the session ends with    *)
(* ValueError and with nothing done: no strategy created, no trial run, no     *)
(* record appended, no final log written; for any task list.                  *)
C8_InvalidTunerFailsAtOnce ==
    tuner \notin KnownTuners =>
       /\ dispatched = << >>
       /\ submitted = << >>
       /\ ~final_log.exists
       /\ pc \notin {"start", "loop"} => (pc = "raised" /\ raised = "ValueError")

(* the records of task tsk in a log, in log order *)
BlockOf(recs, tsk) == SelectSeq(recs, LAMBDA r : r.task = tsk)

(* the k-th record of a task's block is a new best of the task *)
NewBest(b, k) ==
    /\ ~b[k].error
    /\ \A j \in 1 .. (k - 1) : b[j].error \/ b[j].cost > b[k].cost

(* the number of consecutive trials without a new best at the end of the      *)
(* first n records of a task's block                                          *)
NoBestRun(b, n) ==
    LET bests == { k \in 1 .. n : NewBest(b, k) }
    IN  IF bests = {} THEN n
        ELSE n - (CHOOSE k \in bests : \A j \in bests : j <= k)

(* C9: with an early-stopping threshold k, no trial of a task is run once k   *)
(* consecutive trials of that task have produced no new best; a session that   *)
(* completes has gone on through all the tasks, and for every task measured    *)
(* successfully the final log holds a record with the best cost in the         *)
(* temporary log.                                                              *)
C9_EarlyStopping ==
    (early_stopping # NoEarlyStopping /\ pc # "start") =>
       /\ \A tsk \in TaskIds :
             LET b == BlockOf(SessionLog, tsk)
             IN  \A n \in 1 .. (Len(b) - 1) : NoBestRun(b, n) < early_stopping
       /\ pc = "done" =>
             /\ Len(dispatched) = Len(tasks)
             /\ \A tsk \in TaskIds :
                   \A c \in SuccessCosts(tmp_at_reduce, tsk) :
                      \E k \in Of(final_log.recs, tsk) :
                         final_log.recs[k].cost <= c

(* threshold 1, budget 3: the first task stopped after its second trial, which *)
(* brought no new best; its first record is in the final log and the next task *)
(* ran                                                                        *)
C9_Witness ==
    /\ pc = "done"
    /\ early_stopping = 1
    /\ n_trial = 3
    /\ tasks = <<"A", "C">>
    /\ TrialsOf("C") = 2
    /\ TrialsOf("A") = 1
    /\ ~tmp_at_reduce[1].error
    /\ Len(final_log.recs) >= 1
    /\ final_log.recs[1] = tmp_at_reduce[1]

(* C10: the temporary log holds the records in the order the trials were      *)
(* submitted, the records of one task form one contiguous block, and the      *)
(* blocks are in dispatch order.                                              *)
C10_ContiguousBlocks ==
    pc # "start" =>
       /\ Keys(SessionLog) = submitted
       /\ \A a, b, c \in DOMAIN SessionLog :
             (a < b /\ b < c /\ SessionLog[a].task = SessionLog[c].task)
                => SessionLog[b].task = SessionLog[a].task
       /\ \A a, b \in DOMAIN SessionLog :
             a < b =>
                \E x, y \in DOMAIN dispatched :
                   /\ x <= y
                   /\ dispatched[x] = SessionLog[a].task
                   /\ dispatched[y] = SessionLog[b].task

(* three tasks tuned, the last one with two records *)
C10_Witness ==
    /\ pc = "cleanup"
    /\ tasks = <<"B", "A", "D">>
    /\ Len(tmp_log.recs) = 4
    /\ tmp_at_start.exists

-----------------------------------------------------------------------------
C12_NoTmpLeftOnAnyExit ==
    pc \in {"done", "raised"} => ~tmp_log.exists

(* C14: a temporary log that cannot be parsed when the history of a task is   *)
(* loaded never ends the session: no LogCorruptionError leaves tune_tasks.     *)
C14_CorruptLogDoesNotAbort ==
    ~(pc = "raised" /\ raised = "LogCorruptionError")

(* the session of tune_tasks: everything it reads or writes *)
tuning_vars ==
    <<args, tmp_log, final_log, pc, i, tuner_obj, dispatched, submitted,
      tmp_at_reduce>>

IsPrefix(s, t) == Len(s) <= Len(t) /\ \A k \in DOMAIN s : s[k] = t[k]

(* C15: in tune_and_evaluate the compile-and-evaluate phase is entered only   *)
(* when tune_tasks has returned and the final log is written; the steps done  *)
(* are always a prefix of compile, load parameters, set input, benchmark, and *)
(* the result is reported only after all four; tuning is never run again once *)
(* the phase has begun; a step that fails ends the session with its error     *)
(* surfaced and nothing at all happens after it (no retry of the step).       *)
C15_EvaluateAfterTuning ==
    /\ [](phase # "tuning" => (pc = "done" /\ final_log.exists))
    /\ [](IsPrefix(steps, << "compile", "load_params", "set_input", "benchmark" >>))
    /\ [](phase = "reported" => Len(steps) = 4)
    /\ [](phase = "failed" => (raised # "" /\ Len(steps) < 4))
    /\ [][phase # "tuning" => UNCHANGED tuning_vars]_vars
    /\ [][phase \notin {"failed", "reported"}]_vars
    /\ [][phase = "evaluating" =>
             \/ (Len(steps') = Len(steps) + 1 /\ raised' = raised)
             \/ (steps' = steps /\ phase' = "failed" /\ raised' # "")]_vars

(* all four steps were done after a tuning session that measured something *)
C15_Witness ==
    /\ phase = "reported"
    /\ steps = << "compile", "load_params", "set_input", "benchmark" >>
    /\ submitted # << >>
    /\ final_log.recs # << >>

(* the task dispatched last: the one being tuned, if any *)
current == dispatched[Len(dispatched)]

(* C16: tasks are tuned one at a time.  No task is dispatched twice, and a    *)
(* completed session has dispatched every task of the list once; a strategy   *)
(* is created only when no strategy exists or the trial loop of the existing  *)
(* one has run to completion (its budget used, or stopped early); the         *)
(* strategy in use belongs to the task dispatched last, it starts without     *)
(* trials, and every trial is a trial of that task, counted by its strategy.  *)
C16_OneTaskAtATime ==
    /\ [](\A a, b \in DOMAIN dispatched : dispatched[a] = dispatched[b] => a = b)
    /\ [](pc \in {"cleanup", "done"} =>
             \A k \in DOMAIN tasks :
                Cardinality({ d \in DOMAIN dispatched : dispatched[d] = tasks[k] }) = 1)
    /\ [](dispatched # << >> =>
             /\ tuner_obj.task = current
             /\ tuner_obj.trials = TrialsOf(current))
    /\ [][dispatched' # dispatched =>
             /\ dispatched' = Append(dispatched, tuner_obj'.task)
             /\ tuner_obj'.trials = 0
             /\ tuner_obj'.visited = {}
             /\ dispatched # << >> =>
                   \/ TrialsOf(current) = EffectiveBudget(current)
                   \/ tuner_obj.stopped_early]_vars
    /\ [][submitted' # submitted =>
             /\ dispatched' = dispatched
             /\ tuner_obj'.task = tuner_obj.task
             /\ \E cfg \in config_space(current) :
                   submitted' = Append(submitted, <<current, cfg>>)]_vars
    /\ [][tuner_obj'.task # tuner_obj.task => dispatched' # dispatched]_vars

(* the third task of a list is being tuned after the first two have had their *)
(* trials                                                                     *)
C16_Witness ==
    /\ pc = "tune"
    /\ Len(dispatched) = 3
    /\ \A k \in DOMAIN dispatched : TrialsOf(dispatched[k]) >= 1

(* the trial loop of a dispatched task is over: budget used or stopped early *)
LoopOver(tsk) ==
    \/ TrialsOf(tsk) = EffectiveBudget(tsk)
    \/ (tsk = current /\ tuner_obj.stopped_early)
    \/ (tsk # current /\ TrialsOf(tsk) >= 1)

(* C17: reads and appends of the temporary log never overlap.  A history load *)
(* (successful or not) happens at a task boundary, outside any trial loop,    *)
(* before the task it is for has had a trial, and the history is not read     *)
(* again during the loop; the reduction reads the log outside any trial loop  *)
(* when every task has been dispatched and the trial loop of the last one is  *)
(* over, and nothing is appended after it; every change of the log is the     *)
(* removal at the start, one record appended by the trial loop of the current *)
(* task, or the removal after the reduction.                                  *)
C17_NoReadWhileAppending ==
    /\ [][(dispatched' # dispatched
            /\ (tuner_obj'.loaded \/ raised' = "LogCorruptionError")) =>
             /\ pc = "loop"
             /\ tmp_log' = tmp_log
             /\ TrialsOf(tuner_obj'.task) = 0
             /\ dispatched # << >> => LoopOver(current)
             /\ tuner_obj'.loaded => tuner_obj'.history = tmp_log.recs]_vars
    /\ [][pc = "tune" => tuner_obj'.history = tuner_obj.history]_vars
    /\ [][(pc' = "cleanup" \/ raised' = "ReductionError") =>
             /\ pc = "loop"
             /\ tmp_log' = tmp_log
             /\ Len(dispatched) = Len(tasks)
             /\ \A k \in DOMAIN dispatched : LoopOver(dispatched[k])]_vars
    /\ [][(pc \in {"cleanup", "done", "raised"} /\ tmp_log'.exists)
            => tmp_log' = tmp_log]_vars
    /\ [][tmp_log' # tmp_log =>
             \/ (pc = "start" /\ ~tmp_log'.exists)
             \/ (pc = "cleanup" /\ ~tmp_log'.exists)
             \/ /\ pc = "tune" /\ pc' = "tune"
                /\ tmp_log'.exists
                /\ Len(tmp_log'.recs) = Len(tmp_log.recs) + 1
                /\ SubSeq(tmp_log'.recs, 1, Len(tmp_log.recs)) = tmp_log.recs
                /\ tmp_log'.recs[Len(tmp_log'.recs)].task = current
                /\ final_log' = final_log]_vars

(* the reduction has read a log that grew after the last history load *)
C17_Witness ==
    /\ pc = "cleanup"
    /\ tuner_obj.loaded
    /\ tuner_obj.history # << >>
    /\ Len(tmp_at_reduce) > Len(tuner_obj.history)

(* C18: a session works on its own files only: once the compilation has run, *)
(* the log it was compiled with is the final log this session has written,    *)
(* the file at the log path of its own option bundle.                         *)
C18_CompilesWithOwnLog ==
    steps # << >> => applied_log = log_filename

(* C19: a session with a known strategy name whose log reads and writes do    *)
(* not fail never ends in an error: with every measurement returning, it runs *)
(* on to the reduction and the final log, whatever the task list and budget.  *)
C19_SessionReachesFinalLog ==
    (tuner \in KnownTuners /\ raised \notin {"LogCorruptionError", "ReductionError"})
       => pc # "raised"

(* the tasks dispatched before the current one *)
earlier == { dispatched[k] : k \in 1 .. Len(dispatched) - 1 }

(* C20, as stated: every record of the history fed to the strategy of a task  *)
(* is a record of that task.                                                  *)
C20_HistoryOfSameTaskOnly ==
    pc = "tune" =>
       \A k \in DOMAIN tuner_obj.history :
          tuner_obj.history[k].task = tuner_obj.task

(* C20, amended: the history fed to the strategy of a task holds no record of *)
(* that task: every record in it is a record of a task dispatched earlier in  *)
(* the session, and when the history was loaded it holds every record that    *)
(* the temporary log has of each of those tasks, in log order.                *)
C20_HistoryOfEarlierTasks ==
    pc = "tune" =>
       /\ \A k \in DOMAIN tuner_obj.history :
             /\ tuner_obj.history[k].task \in earlier
             /\ tuner_obj.history[k].task # tuner_obj.task
       /\ tuner_obj.loaded =>
             \A tsk \in earlier :
                BlockOf(tuner_obj.history, tsk) = BlockOf(tmp_log.recs, tsk)
       /\ (use_transfer_learning /\ Len(tmp_log.recs) > tuner_obj.trials)
             => tuner_obj.loaded

(* the strategy of the third task has been fed records of the two tasks       *)
(* dispatched before it                                                       *)
C20_Witness ==
    /\ pc = "tune"
    /\ tuner_obj.task = "B"
    /\ dispatched = << "D", "A", "B" >>
    /\ \E a, b \in DOMAIN tuner_obj.history :
          tuner_obj.history[a].task = "D" /\ tuner_obj.history[b].task = "A"

(* C21: once tune_and_evaluate has entered the compilation context, whether   *)
(* or not the log could be read, the log applied as the source of             *)
(* configurations is the file named by the log_filename of the option bundle, *)
(* the one the reduction of this session wrote.                               *)
C21_AppliesLogOfBundle ==
    phase # "tuning" => (applied_log = AppliedLogOfBundle /\ final_log.exists)

(* C22: from the first append until the reduction starts the temporary log    *)
(* only grows: the file stays, and a step leaves its content as it is or adds *)
(* one record at its end, the records before it unchanged and in place; so a  *)
(* content read earlier (the history loaded for the current task) is a prefix *)
(* of the content now.                                                        *)
C22_TmpLogOnlyGrows ==
    /\ [][(submitted # << >> /\ pc \in {"loop", "tune"}) =>
             /\ tmp_log'.exists
             /\ Len(tmp_log'.recs) \in {Len(tmp_log.recs), Len(tmp_log.recs) + 1}
             /\ IsPrefix(tmp_log.recs, tmp_log'.recs)]_vars
    /\ []((submitted # << >> /\ pc \in {"loop", "tune"}) =>
             /\ tmp_log.exists
             /\ Len(tmp_log.recs) = Len(submitted)
             /\ tuner_obj.loaded => IsPrefix(tuner_obj.history, tmp_log.recs))

(* the log has grown by two records since the history of the current task was *)
(* read from it                                                               *)
C22_Witness ==
    /\ pc = "tune"
    /\ tuner_obj.loaded
    /\ tuner_obj.history # << >>
    /\ Len(tmp_log.recs) = Len(tuner_obj.history) + 2

(* C23: the temporary log found at the start is gone before the first task is *)
(* dispatched, and nothing of it is ever used: the strategy of the first task *)
(* dispatched ingests no history, every record ingested as history is the     *)
(* record of a trial submitted in this session, and the log that the          *)
(* reduction reads holds the records of the trials of this session, one per   *)
(* trial in the order submitted, and no other record.                         *)
C23_OnlyRecordsOfThisSession ==
    /\ (pc # "start" /\ submitted = << >>) => ~tmp_log.exists
    /\ Len(dispatched) = 1 => (~tuner_obj.loaded /\ tuner_obj.history = << >>)
    /\ \E n \in 0 .. Len(submitted) :
          Keys(tuner_obj.history) = SubSeq(submitted, 1, n)
    /\ pc \in {"cleanup", "done"} => Keys(tmp_at_reduce) = submitted

(* a session that found a temporary log with records at its start has loaded  *)
(* history and reduced its own records only                                   *)
C23_Witness ==
    /\ pc = "cleanup"
    /\ tmp_at_start.exists
    /\ tmp_at_start.recs # << >>
    /\ tuner_obj.loaded
    /\ tuner_obj.history # << >>
    /\ Len(tmp_at_reduce) = 2

(* C24: whenever the for loop is over and the reduction is about to run, the  *)
(* temporary log file exists.                                                 *)
C24_TmpLogExistsAtReduction ==
    (pc = "loop" /\ i = Len(tasks)) => tmp_log.exists

TypeOK ==
    /\ pc \in {"start", "loop", "tune", "cleanup", "done", "raised"}
    /\ i \in 0 .. Len(tasks)
    /\ raised \in {"", "ValueError", "FileNotFoundError", "LogCorruptionError",
                   "ReductionError", "CompilationFailure", "DeviceLoadFailure",
                   "RuntimeError"}
    /\ phase \in {"tuning", "evaluating", "reported", "failed"}
    /\ applied_log \in {""} \cup LogFiles

====
